---- MODULE Spec2Model ----
(***************************************************************************)
(* A model of model2.py (IBM Model 2 style translation): the Vocab class,  *)
(* Decoder.start/step, Model.logprob, Model.translate and the epoch loop   *)
(* of __main__.                                                            *)
(*                                                                         *)
(* Three specifications share the module:                                  *)
(*   SpecVocab : any sequence of method calls on one Vocab object          *)
(*   SpecModel : one call of Model.logprob or Model.translate, one decoder *)
(*               step per transition                                       *)
(*   SpecTrain : the epoch loop and the test-set translation of __main__   *)
(***************************************************************************)
EXTENDS Integers, Sequences, FiniteSets, TLC

VARIABLES
    vocab,          \* SpecVocab: the Vocab object under test
    added,          \* SpecVocab: every word handed to add so far (directly or by |=)
    vop,            \* SpecVocab: the last method call: name, argument, outcome
    fvocab, evocab, \* the module-level vocabularies of __main__
    heap,           \* parameters of the Model objects alive, by object identity
    m,              \* the Model object the name m refers to
    frame,          \* SpecModel: locals and position of the running logprob / translate call
    calls,          \* SpecModel: the Decoder.step calls made so far: (state, enum)
    main,           \* SpecTrain: locals of __main__ (position, counters, best model)
    seen,           \* SpecTrain: per held-out loss observed, the first epoch that had it
                    \*            and the parameters of the live model at its end
    outfile         \* SpecTrain: the lines written to test.out

vars == <<vocab, added, vop, fvocab, evocab, heap, m, frame, calls,
          main, seen, outfile>>

(***************************************************************************)
(* Bounds of the model and constants of the program.                       *)
(***************************************************************************)
MaxWord == 2        \* number of distinct ordinary words offered to a Vocab
MaxSentLen == 2     \* ordinary words in a short sentence, before '<EOS>'
MaxLoss == 2        \* a sentence pair's loss is drawn from 1..MaxLoss

maxlen == 100       \* Decoder.maxlen: rows of fpos and epos
TranslateCap == 100 \* range(100) in Model.translate
NumEpochs == 10     \* range(10) in __main__

BOS == "<BOS>"
EOS == "<EOS>"
UNK == "<UNK>"
Reserved == {BOS, EOS, UNK}

WordList == <<"a", "b", "c", "d", "e", "f">>
Words == {WordList[k] : k \in 1..MaxWord}
AllWords == Reserved \cup Words
Unseen == WordList[MaxWord + 1]     \* a word never handed to add

\* every order in which list({'<BOS>', '<EOS>', '<UNK>'}) can come out
ReservedOrders == {s \in [1..3 -> Reserved] : \A w \in Reserved : \E k \in 1..3 : s[k] = w}

RECURSIVE SeqsUpTo(_, _)
SeqsUpTo(S, n) ==
    IF n = 0 THEN {<<>>}
    ELSE LET shorter == SeqsUpTo(S, n - 1)
         IN  shorter \cup {Append(s, x) : s \in {t \in shorter : Len(t) = n - 1}, x \in S}

Range(s) == {s[k] : k \in 1..Len(s)}

(***************************************************************************)
(* class Vocab.  An object is a record of its two fields; ids count from 0 *)
(* and num_to_word[n] of the program is num_to_word[n + 1] here.  A method *)
(* is an operator from the object and the arguments to the outcome of the  *)
(* call: the object afterwards, the value returned, the exception raised.  *)
(***************************************************************************)
NoErr == "none"
None == <<>>

Returns(self, value) == [self |-> self, ret |-> <<value>>, err |-> NoErr]
ReturnsNone(self) == [self |-> self, ret |-> None, err |-> NoErr]
Raises(self, exc) == [self |-> self, ret |-> None, err |-> exc]

Vocab__init__(order) ==
    [num_to_word |-> order,
     word_to_num |-> [w \in Range(order) |-> (CHOOSE k \in 1..Len(order) : order[k] = w) - 1]]

contains(self, word) == word \in DOMAIN self.word_to_num

len(self) == Len(self.num_to_word)

iter(self) == self.num_to_word

SetItem(d, key, value) == [k \in DOMAIN d \cup {key} |-> IF k = key THEN value ELSE d[k]]

\* mutants of add: no test for presence; the id one too high; the word put first
add_unchecked(self, word) ==
    ReturnsNone([num_to_word |-> Append(self.num_to_word, word),
                 word_to_num |-> SetItem(self.word_to_num, word, Len(self.num_to_word))])

add_off_by_one(self, word) ==
    IF contains(self, word) THEN ReturnsNone(self)
    ELSE ReturnsNone([num_to_word |-> Append(self.num_to_word, word),
                      word_to_num |-> SetItem(self.word_to_num, word,
                                              Len(self.num_to_word) + 1)])

add_front(self, word) ==
    IF contains(self, word) THEN ReturnsNone(self)
    ELSE ReturnsNone([num_to_word |-> <<word>> \o self.num_to_word,
                      word_to_num |-> [w \in DOMAIN self.word_to_num \cup {word} |->
                                          IF w = word THEN 0 ELSE self.word_to_num[w] + 1]])

add(self, word) ==
    IF contains(self, word) THEN ReturnsNone(self)
    ELSE LET num == Len(self.num_to_word)
         IN  ReturnsNone([num_to_word |-> Append(self.num_to_word, word),
                          word_to_num |-> SetItem(self.word_to_num, word, num)])

\* mutant of discard: the word is taken out and the later ids move down
discard_removes(self, word) ==
    IF ~contains(self, word) THEN ReturnsNone(self)
    ELSE LET n == self.word_to_num[word]
             kept == SelectSeq(self.num_to_word, LAMBDA w : w # word)
         IN  ReturnsNone([num_to_word |-> kept,
                          word_to_num |-> [w \in Range(kept) |->
                              IF self.word_to_num[w] > n THEN self.word_to_num[w] - 1
                              ELSE self.word_to_num[w]]])

discard(self, word) == Raises(self, "NotImplementedError")

\* mutant of numberize: an unseen word is added and its new id returned
numberize_adds(self, word) ==
    IF word \in DOMAIN self.word_to_num THEN Returns(self, self.word_to_num[word])
    ELSE Returns(add(self, word).self, Len(self.num_to_word))

numberize(self, word) ==
    IF word \in DOMAIN self.word_to_num THEN Returns(self, self.word_to_num[word])
    ELSE IF UNK \in DOMAIN self.word_to_num THEN Returns(self, self.word_to_num[UNK])
    ELSE Raises(self, "KeyError")

\* a Python list index: negative numbers count from the end
denumberize(self, num) ==
    LET size == Len(self.num_to_word)
    IN  IF 0 <= num /\ num < size THEN Returns(self, self.num_to_word[num + 1])
        ELSE IF -size <= num /\ num < 0 THEN Returns(self, self.num_to_word[size + num + 1])
        ELSE Raises(self, "IndexError")

(***************************************************************************)
(* The mixin methods Vocab inherits from collections.abc.MutableSet, which *)
(* are written in terms of add, discard, __contains__ and __iter__.        *)
(***************************************************************************)
\* remove(value): KeyError if value not in self, else self.discard(value)
remove(self, value) ==
    IF ~contains(self, value) THEN Raises(self, "KeyError")
    ELSE discard(self, value)

\* pop(): the first element of iter(self) is discarded and returned
pop(self) ==
    IF iter(self) = <<>> THEN Raises(self, "KeyError")
    ELSE LET value == Head(iter(self))
             r == discard(self, value)
         IN  IF r.err # NoErr THEN r ELSE Returns(r.self, value)

\* clear(): pop() until it raises KeyError, which alone is caught
RECURSIVE clear(_)
clear(self) ==
    LET r == pop(self)
    IN  IF r.err = "KeyError" THEN ReturnsNone(r.self)
        ELSE IF r.err # NoErr THEN r
        ELSE clear(r.self)

\* for value in it: self.method(value), stopping at the first exception
RECURSIVE ForEachDiscard(_, _)
ForEachDiscard(self, it) ==
    IF it = <<>> THEN ReturnsNone(self)
    ELSE LET r == discard(self, Head(it))
         IN  IF r.err # NoErr THEN r ELSE ForEachDiscard(r.self, Tail(it))

RECURSIVE ForEachAdd(_, _)
ForEachAdd(self, it) ==
    IF it = <<>> THEN ReturnsNone(self)
    ELSE LET r == add(self, Head(it))
         IN  IF r.err # NoErr THEN r ELSE ForEachAdd(r.self, Tail(it))

\* self |= it
ior(self, it) ==
    LET r == ForEachAdd(self, it)
    IN  IF r.err # NoErr THEN r ELSE Returns(r.self, "self")

\* self -= it: clear() when it is self, else discard each value of it
isub(self, it, it_is_self) ==
    LET r == IF it_is_self THEN clear(self) ELSE ForEachDiscard(self, it)
    IN  IF r.err # NoErr THEN r ELSE Returns(r.self, "self")

(***************************************************************************)
(* Model parameters.  The tensors (emb, fpos, epos, out) are values of the *)
(* numeric runtime; the model keeps of them what the control flow of this  *)
(* file reads: a parameter setting theta fixes, for every output position, *)
(* the scores of the target ids.  Scores are log-probabilities scaled to   *)
(* integers.  The settings are numbered so that an optimizer step can move *)
(* from one to the next.                                                   *)
(***************************************************************************)
StopList == <<0, 2, maxlen - 1, maxlen>>

NumThetas(size) == Len(StopList) * size * size

ThetaBefore(theta, size) == theta % size
ThetaStop(theta, size) == StopList[((theta \div size) % Len(StopList)) + 1]
ThetaAfter(theta, size) == (theta \div (Len(StopList) * size)) % size

\* row num of the embedding table of setting theta
Embedding(theta, num) == <<theta, num>>

\* Encoder.sequence: one encoding per source id
sequence(theta, fnums) == [k \in 1..Len(fnums) |-> Embedding(theta, fnums[k])]

\* attention(q, k, v) over v = out(fencs): the scores of the target ids at
\* output position state
attention(theta, fencs, state, size) ==
    LET best == IF state < ThetaStop(theta, size) THEN ThetaBefore(theta, size)
                ELSE ThetaAfter(theta, size)
    IN  [e \in 0..(size - 1) |->
            IF e = best THEN -1 ELSE -(2 + ((e + Len(fencs)) % 2))]

\* torch.argmax: the first index holding the largest value
argmax(o) ==
    CHOOSE e \in DOMAIN o :
        /\ \A x \in DOMAIN o : o[x] <= o[e]
        /\ \A x \in DOMAIN o : o[x] = o[e] => e <= x

\* Decoder.start
start == 0

\* Decoder.step: epos[state] raises IndexError when state is no row of epos;
\* enum is accepted and not read
step(theta, fencs, state, enum, size) ==
    IF state >= maxlen THEN [o |-> <<>>, newstate |-> state, err |-> "IndexError"]
    ELSE [o |-> attention(theta, fencs, state, size), newstate |-> state + 1, err |-> NoErr]

\* [vocab.numberize(w) for w in words]
numberizeAll(self, words) == [k \in 1..Len(words) |-> numberize(self, words[k]).ret[1]]

\* [vocab.denumberize(n) for n in nums]
denumberizeAll(self, nums) == [k \in 1..Len(nums) |-> denumberize(self, nums[k]).ret[1]]

(***************************************************************************)
(* Model.logprob and Model.translate, one loop iteration at a time.  A     *)
(* frame holds the locals of the call; at is where the call stands.        *)
(***************************************************************************)
\* logprob, up to the loop
logprob_enter(theta, fwords, ewords) ==
    LET fnums == numberizeAll(fvocab, fwords)
    IN  [fn |-> "logprob", at |-> "loop", fwords |-> fwords, ewords |-> ewords,
         fencs |-> sequence(theta, fnums), h |-> start, logprob |-> 0,
         enum |-> numberize(evocab, BOS).ret[1], i |-> 0, err |-> NoErr]

\* one iteration of the loop of logprob
logprob_body(theta, fr) ==
    LET r == step(theta, fr.fencs, fr.h, fr.enum, len(evocab))
        enum == numberize(evocab, fr.ewords[fr.i + 1]).ret[1]
    IN  IF r.err # NoErr THEN [fr EXCEPT !.at = "raised", !.err = r.err]
        ELSE [fr EXCEPT !.h = r.newstate, !.enum = enum,
                        !.logprob = fr.logprob + r.o[enum], !.i = fr.i + 1]

\* translate, up to the loop
translate_enter(theta, fwords) ==
    LET fnums == numberizeAll(fvocab, fwords)
    IN  [fn |-> "translate", at |-> "loop", fwords |-> fwords,
         fencs |-> sequence(theta, fnums), h |-> start, ewords |-> <<>>,
         enum |-> numberize(evocab, BOS).ret[1], i |-> 0, err |-> NoErr]

\* mutant of translate's loop body: the pick is appended before the test
translate_body_keeps_eos(theta, fr) ==
    LET r == step(theta, fr.fencs, fr.h, fr.enum, len(evocab))
        enum == argmax(r.o)
    IN  IF r.err # NoErr THEN [fr EXCEPT !.at = "raised", !.err = r.err]
        ELSE IF denumberize(evocab, enum).ret[1] = EOS
             THEN [fr EXCEPT !.h = r.newstate, !.enum = enum, !.at = "after",
                             !.ewords = Append(fr.ewords, enum)]
             ELSE [fr EXCEPT !.h = r.newstate, !.enum = enum, !.i = fr.i + 1,
                             !.ewords = Append(fr.ewords, enum)]

\* one iteration of the loop of translate
translate_body(theta, fr) ==
    LET r == step(theta, fr.fencs, fr.h, fr.enum, len(evocab))
        enum == argmax(r.o)
    IN  IF r.err # NoErr THEN [fr EXCEPT !.at = "raised", !.err = r.err]
        ELSE IF denumberize(evocab, enum).ret[1] = EOS
             THEN [fr EXCEPT !.h = r.newstate, !.enum = enum, !.at = "after"]
             ELSE [fr EXCEPT !.h = r.newstate, !.enum = enum, !.i = fr.i + 1,
                             !.ewords = Append(fr.ewords, enum)]

(***************************************************************************)
(* SpecVocab: a Vocab object and any sequence of calls of its methods.  An *)
(* exception is taken to be caught by the caller, who goes on using the    *)
(* object.                                                                 *)
(***************************************************************************)
\* sentences as read_data yields them: ordinary words, then '<EOS>'
Sentences == {Append(s, EOS) : s \in SeqsUpTo(Words, MaxSentLen)}

\* iterables handed to -=
Iterables == SeqsUpTo(AllWords \cup {Unseen}, 1) \cup {<<Unseen, w>> : w \in Words}

NoCall == [op |-> "none", arg |-> None, ret |-> None, err |-> NoErr]

NoFrame == [fn |-> "none"]
NoMain == [at |-> "none"]

OtherIdle ==
    /\ fvocab = Vocab__init__(<<BOS, EOS, UNK>>)
    /\ evocab = Vocab__init__(<<BOS, EOS, UNK>>)
    /\ heap = <<>>
    /\ m = 0
    /\ frame = NoFrame
    /\ calls = <<>>
    /\ main = NoMain
    /\ seen = <<>>
    /\ outfile = <<>>

InitVocab ==
    /\ \E order \in ReservedOrders : vocab = Vocab__init__(order)
    /\ added = {}
    /\ vop = NoCall
    /\ OtherIdle

Called(op, arg, r) ==
    /\ vocab' = r.self
    /\ vop' = [op |-> op, arg |-> arg, ret |-> r.ret, err |-> r.err]
    /\ UNCHANGED <<fvocab, evocab, heap, m, frame, calls, main, seen, outfile>>

Add == \E word \in AllWords :
    /\ Called("add", <<word>>, add(vocab, word))
    /\ added' = added \cup {word}

Ior == \E it \in Sentences :
    /\ Called("ior", it, ior(vocab, it))
    /\ added' = added \cup Range(it)

Numberize == \E word \in AllWords \cup {Unseen} :
    /\ Called("numberize", <<word>>, numberize(vocab, word))
    /\ UNCHANGED added

Denumberize == \E num \in (-1)..(len(vocab)) :
    /\ Called("denumberize", <<num>>, denumberize(vocab, num))
    /\ UNCHANGED added

Discard == \E word \in AllWords :
    /\ Called("discard", <<word>>, discard(vocab, word))
    /\ UNCHANGED added

Remove == \E word \in AllWords \cup {Unseen} :
    /\ Called("remove", <<word>>, remove(vocab, word))
    /\ UNCHANGED added

Pop ==
    /\ Called("pop", None, pop(vocab))
    /\ UNCHANGED added

Clear ==
    /\ Called("clear", None, clear(vocab))
    /\ UNCHANGED added

Isub == \E it \in Iterables :
    /\ Called("isub", it, isub(vocab, it, FALSE))
    /\ UNCHANGED added

IsubSelf ==
    /\ Called("isub", iter(vocab), isub(vocab, iter(vocab), TRUE))
    /\ UNCHANGED added

NextVocab ==
    \/ Add
    \/ Ior
    \/ Numberize
    \/ Denumberize
    \/ Discard
    \/ Remove
    \/ Pop
    \/ Clear
    \/ Isub
    \/ IsubSelf

SpecVocab == InitVocab /\ [][NextVocab]_vars

(***************************************************************************)
(* Claims about Vocab, under SpecVocab.                                    *)
(***************************************************************************)
Size == Len(vocab.num_to_word)
Present == DOMAIN vocab.word_to_num

\* C3, as stated: after any sequence of add calls (bulk population with |=
\* from sentences ending in '<EOS>' included) the size is 3 + the number of
\* distinct added words.
C3_SizeCountsAllAdded == Size = 3 + Cardinality(added)

\* C3, amended: the size is 3 + the number of distinct added words that are
\* not one of the three reserved tokens.
C3_SizeCountsNewWords == Size = 3 + Cardinality(added \ Reserved)

C3_Witness ==
    /\ vop.op = "ior"
    /\ EOS \in added
    /\ Cardinality(added \ Reserved) >= 2

\* C4: the two maps are mutually inverse: denumberize(numberize(w)) = w for
\* every word of the vocabulary and numberize(denumberize(n)) = n for every
\* id below the size, neither call raising.
C4_MutuallyInverse ==
    /\ \A w \in Present :
          LET n == numberize(vocab, w)
          IN  /\ n.err = NoErr
              /\ denumberize(vocab, n.ret[1]) = Returns(vocab, w)
    /\ \A n \in 0..(Size - 1) :
          LET w == denumberize(vocab, n)
          IN  /\ w.err = NoErr
              /\ numberize(vocab, w.ret[1]) = Returns(vocab, n)

C4_Witness ==
    /\ vop.op = "add"
    /\ Size = 3 + MaxWord
    /\ vocab.word_to_num[vop.arg[1]] < Size - 1

\* C5: ids are append-only.  No step changes the id of a present word or the
\* word of an assigned id; no id is held by two words; add(word) changes
\* nothing when the word is present and otherwise gives it the id equal to the
\* size before the call, the size growing by one.
IdsKept ==
    /\ \A w \in Present : w \in DOMAIN vocab'.word_to_num
                          /\ vocab'.word_to_num[w] = vocab.word_to_num[w]
    /\ Len(vocab'.num_to_word) >= Size
    /\ \A k \in 1..Size : vocab'.num_to_word[k] = vocab.num_to_word[k]

AddAssignsNext ==
    vop'.op = "add" =>
        LET word == vop'.arg[1]
        IN  IF word \in Present THEN vocab' = vocab
            ELSE /\ Len(vocab'.num_to_word) = Size + 1
                 /\ DOMAIN vocab'.word_to_num = Present \cup {word}
                 /\ vocab'.word_to_num[word] = Size

IdsDistinct ==
    \A v, w \in Present : vocab.word_to_num[v] = vocab.word_to_num[w] => v = w

C5_AppendOnly == IdsDistinct /\ [][IdsKept /\ AddAssignsNext /\ IdsDistinct']_vars

C5_Witness ==
    /\ vop.op = "add"
    /\ vop.arg[1] \in Words
    /\ Size = 3 + MaxWord
    /\ vocab.word_to_num[vop.arg[1]] = 3

\* C6: numberize never raises; it returns the id of a present word and the id
\* of '<UNK>' for any other word, and the call leaves the vocabulary as it was.
NumberizeAnswer ==
    vop.op = "numberize" =>
        /\ vop.err = NoErr
        /\ vop.ret[1] \in 0..(Size - 1)
        /\ vocab.num_to_word[vop.ret[1] + 1] =
              (IF vop.arg[1] \in Range(vocab.num_to_word) THEN vop.arg[1] ELSE UNK)

NumberizeKeeps == vop'.op = "numberize" => vocab' = vocab

C6_NumberizeTotal == NumberizeAnswer /\ [][NumberizeAnswer' /\ NumberizeKeeps]_vars

C6_Witness ==
    /\ vop.op = "numberize"
    /\ vop.arg[1] \notin Present
    /\ Size > 3
    /\ vop.ret = <<vocab.word_to_num[UNK]>>

\* C7, as stated: every removal operation (discard, remove, pop, clear,
\* in-place difference) ends in an error for every argument.
RemovalOps == {"discard", "remove", "pop", "clear", "isub"}

C7_RemovalAlwaysRaises == vop.op \in RemovalOps => vop.err # NoErr

\* C7, amended: every removal operation ends in an error, except in-place
\* difference with an empty iterable, which discards nothing and returns; and
\* every one of them leaves the words and ids as they were.
RemovalRaisesUnlessEmpty ==
    vop.op \in RemovalOps => (vop.err # NoErr \/ (vop.op = "isub" /\ vop.arg = <<>>))

RemovalKeeps == vop'.op \in RemovalOps => vocab' = vocab

C7_RemovalNeverRemoves ==
    RemovalRaisesUnlessEmpty /\ [][RemovalRaisesUnlessEmpty' /\ RemovalKeeps]_vars

C7_Witness ==
    /\ vop.op = "isub"
    /\ vop.err = "NotImplementedError"
    /\ Len(vop.arg) = 1
    /\ vop.arg[1] \in Words \cap Present

(***************************************************************************)
(* SpecModel: a Model over the vocabularies of a small training corpus,    *)
(* with any parameter setting, and one call of logprob or of translate.    *)
(***************************************************************************)
TrainF == <<"x", "y", EOS>>
TrainE == <<"a", "b", EOS>>

\* fvocab = Vocab(); fvocab |= fwords (and the same for evocab).  One order
\* serves both: a process lists the same set literal in the same order.
BuildVocab(order, sentence) == ior(Vocab__init__(order), sentence).self

\* lines 202-206: the vocabulary of every sentence of one side of the data
RECURSIVE IorAll(_, _)
IorAll(self, sentences) ==
    IF sentences = <<>> THEN self
    ELSE IorAll(ior(self, Head(sentences)).self, Tail(sentences))

BuildCorpusVocab(order, sentences) == IorAll(Vocab__init__(order), sentences)

Long(n) == [k \in 1..n |-> IF k = n THEN EOS ELSE "a"]

SrcSentences == {<<"x", EOS>>, <<"y", "q", "x", EOS>>}

TgtSentences ==
    {<<>>}
    \cup {Append(s, EOS) : s \in SeqsUpTo({"a", "zz"}, MaxSentLen)}
    \cup {Long(maxlen), Long(maxlen + 1)}

VocabIdle ==
    /\ vocab = Vocab__init__(<<BOS, EOS, UNK>>)
    /\ added = {}
    /\ vop = NoCall

InitModel ==
    /\ \E order \in ReservedOrders :
          /\ fvocab = BuildVocab(order, TrainF)
          /\ evocab = BuildVocab(order, TrainE)
    /\ m = 1
    /\ \E theta \in 0..(NumThetas(len(evocab)) - 1) : heap = (m :> theta)
    /\ frame = [fn |-> "none", at |-> "idle"]
    /\ calls = <<>>
    /\ VocabIdle
    /\ main = NoMain
    /\ seen = <<>>
    /\ outfile = <<>>

ModelUnchanged == UNCHANGED <<vocab, added, vop, fvocab, evocab, heap, m, main, seen, outfile>>

LogprobCall == \E fwords \in SrcSentences, ewords \in TgtSentences :
    /\ frame.at = "idle"
    /\ frame' = logprob_enter(heap[m], fwords, ewords)
    /\ UNCHANGED calls
    /\ ModelUnchanged

LogprobIter ==
    /\ frame.fn = "logprob" /\ frame.at = "loop"
    /\ frame.i < Len(frame.ewords)
    /\ calls' = Append(calls, [state |-> frame.h, enum |-> frame.enum])
    /\ frame' = logprob_body(heap[m], frame)
    /\ ModelUnchanged

LogprobReturn ==
    /\ frame.fn = "logprob" /\ frame.at = "loop"
    /\ frame.i >= Len(frame.ewords)
    /\ frame' = [fn |-> "logprob", at |-> "returned", fwords |-> frame.fwords,
                 ewords |-> frame.ewords, fencs |-> frame.fencs,
                 result |-> frame.logprob]
    /\ UNCHANGED calls
    /\ ModelUnchanged

TranslateCall == \E fwords \in SrcSentences :
    /\ frame.at = "idle"
    /\ frame' = translate_enter(heap[m], fwords)
    /\ UNCHANGED calls
    /\ ModelUnchanged

TranslateIter ==
    /\ frame.fn = "translate" /\ frame.at = "loop"
    /\ frame.i < TranslateCap
    /\ calls' = Append(calls, [state |-> frame.h, enum |-> frame.enum])
    /\ frame' = translate_body(heap[m], frame)
    /\ ModelUnchanged

TranslateReturn ==
    /\ frame.fn = "translate"
    /\ \/ frame.at = "after"
       \/ frame.at = "loop" /\ frame.i >= TranslateCap
    /\ frame' = [fn |-> "translate", at |-> "returned", fwords |-> frame.fwords,
                 fencs |-> frame.fencs,
                 result |-> denumberizeAll(evocab, frame.ewords)]
    /\ UNCHANGED calls
    /\ ModelUnchanged

NextModel ==
    \/ LogprobCall
    \/ LogprobIter
    \/ LogprobReturn
    \/ TranslateCall
    \/ TranslateIter
    \/ TranslateReturn

SpecModel == InitModel /\ [][NextModel]_vars

(***************************************************************************)
(* Claims about Model.logprob and Model.translate, under SpecModel.        *)
(***************************************************************************)
Finished == frame.at \in {"returned", "raised"}

\* the scores and the greedy pick of output position k in the running call
ScoresAt(k) == attention(heap[m], frame.fencs, k, len(evocab))
PickAt(k) == argmax(ScoresAt(k))
EosId == evocab.word_to_num[EOS]

\* C1: every call logprob and translate make to Decoder.step passes a state i
\* with 0 <= i < maxlen, for target sentences of any length.
C1_StepStateInRange ==
    \A k \in 1..Len(calls) : 0 <= calls[k].state /\ calls[k].state < maxlen

\* the part of C1 about translate alone
C1_TranslateStateInRange == frame.fn = "translate" => C1_StepStateInRange

\* C2: translate makes at most 100 decoder steps, stops at the first step
\* whose pick is the end-of-sequence id, and returns exactly the words of the
\* picks made before that step (all 100 if none is end-of-sequence); the
\* output has at most 100 words and no end-of-sequence token.
FirstEos ==
    IF \E k \in 0..(TranslateCap - 1) : PickAt(k) = EosId
    THEN CHOOSE k \in 0..(TranslateCap - 1) :
            PickAt(k) = EosId /\ \A j \in 0..(k - 1) : PickAt(j) # EosId
    ELSE TranslateCap

C2_TranslateOutput ==
    (frame.fn = "translate" /\ Finished) =>
        /\ frame.at = "returned"
        /\ Len(calls) <= TranslateCap
        /\ Len(calls) = (IF FirstEos < TranslateCap THEN FirstEos + 1 ELSE TranslateCap)
        /\ \A k \in 1..Len(calls) : calls[k].state = k - 1
        /\ frame.result = [k \in 1..FirstEos |-> evocab.num_to_word[PickAt(k - 1) + 1]]
        /\ Len(frame.result) <= TranslateCap
        /\ EOS \notin Range(frame.result)

C2_Witness ==
    /\ frame.fn = "translate" /\ frame.at = "returned"
    /\ FirstEos = TranslateCap - 1
    /\ Len(frame.result) = TranslateCap - 1
    /\ Len(calls) = TranslateCap

\* C9: logprob on a target sentence of length m makes exactly m decoder steps,
\* with states 0..m-1 in order; step 0 is fed the id of '<BOS>' and step k > 0
\* the id of target word k-1; the result is the sum over k of the score step k
\* gives the id of target word k, an absent word counting as '<UNK>'.
TargetId(k) ==
    IF frame.ewords[k] \in Range(evocab.num_to_word)
    THEN evocab.word_to_num[frame.ewords[k]]
    ELSE evocab.word_to_num[UNK]

RECURSIVE SumScores(_)
SumScores(k) == IF k = 0 THEN 0 ELSE SumScores(k - 1) + ScoresAt(k - 1)[TargetId(k)]

TeacherForced ==
    /\ frame.at = "returned"
    /\ Len(calls) = Len(frame.ewords)
    /\ \A k \in 1..Len(calls) :
          /\ calls[k].state = k - 1
          /\ calls[k].enum = (IF k = 1 THEN evocab.word_to_num[BOS] ELSE TargetId(k - 1))
    /\ frame.result = SumScores(Len(frame.ewords))

C9_TeacherForcing == (frame.fn = "logprob" /\ Finished) => TeacherForced

\* the part of C9 about target sentences of at most maxlen words
C9_TeacherForcingUpToMaxlen ==
    (frame.fn = "logprob" /\ Finished /\ Len(frame.ewords) <= maxlen) => TeacherForced

(***************************************************************************)
(* __main__: the epoch loop and the translation of the test set.  The      *)
(* value of logprob(...).item() is a float of the numeric runtime; the     *)
(* loop reads it only to add and to compare, and it is drawn from          *)
(* 1..MaxLoss.  What is printed to the console is not kept.  Every        *)
(* sentence of the data is shorter than maxlen, so no logprob call of the  *)
(* loop raises.                                                            *)
(***************************************************************************)
Pair(f, e) == [fwords |-> f, ewords |-> e]

traindata0 == <<Pair(TrainF, TrainE), Pair(<<"y", EOS>>, <<"b", "b", EOS>>)>>
devdata == <<Pair(<<"y", EOS>>, <<"b", EOS>>)>>
testdata == <<Pair(<<"x", EOS>>, <<"a", EOS>>), Pair(<<"y", "q", "x", EOS>>, <<"b", "a", EOS>>)>>

Losses == 1..MaxLoss

\* the order of the reserved tokens in this run, and the settings the random
\* initialisation of the parameters may give
TrainOrder == <<EOS, UNK, BOS>>
InitThetas == {0, 1}

\* random.shuffle: any order of the same pairs
Shuffles(data) ==
    {[k \in 1..Len(data) |-> data[p[k]]] :
        p \in {q \in [1..Len(data) -> 1..Len(data)] :
                  \A i, j \in 1..Len(data) : q[i] = q[j] => i = j}}

\* opt.step(): the parameters of the live model move to the next setting
OptStep(theta) == (theta + 1) % NumThetas(len(evocab))

\* Model.translate run to its end
RECURSIVE translate_loop(_, _)
translate_loop(theta, fr) ==
    IF fr.at = "loop" /\ fr.i < TranslateCap
    THEN translate_loop(theta, translate_body(theta, fr))
    ELSE fr

translate(theta, fwords) ==
    denumberizeAll(evocab, translate_loop(theta, translate_enter(theta, fwords)).ewords)

\* ' '.join(translation): a line is kept as the list of its words, which hold
\* no blank
join(words) == words

\* an object identity not in use
NewObject(h) == CHOOSE o \in 1..(Cardinality(DOMAIN h) + 1) : o \notin DOMAIN h

\* mutant of deepcopy: the same object under a second name
deepcopy_alias(h, obj) == [heap |-> h, ref |-> obj]

\* copy.deepcopy(m): a new object with the parameters obj has now
deepcopy(h, obj) ==
    LET new == NewObject(h)
    IN  [heap |-> [o \in DOMAIN h \cup {new} |-> IF o = new THEN h[obj] ELSE h[o]],
         ref |-> new]

\* mutant of the test that guards the snapshot: a tie replaces it too
improves_or_ties(best_dev_loss, dev_loss) ==
    best_dev_loss = None \/ dev_loss <= best_dev_loss[1]

\* best_dev_loss is None or dev_loss < best_dev_loss
improves(best_dev_loss, dev_loss) ==
    best_dev_loss = None \/ dev_loss < best_dev_loss[1]

\* objects no name refers to are gone
Collect(h, refs) == [o \in DOMAIN h \cap refs |-> h[o]]

InitTrain ==
    /\ fvocab = BuildCorpusVocab(TrainOrder, [k \in 1..Len(traindata0) |-> traindata0[k].fwords])
    /\ evocab = BuildCorpusVocab(TrainOrder, [k \in 1..Len(traindata0) |-> traindata0[k].ewords])
    /\ m = 1
    /\ \E theta \in InitThetas : heap = (m :> theta)
    /\ main = [at |-> "epoch", epoch |-> 0, traindata |-> traindata0, k |-> 0,
               train_loss |-> 0, train_ewords |-> 0, dev_loss |-> 0, dev_ewords |-> 0,
               best_dev_loss |-> None, best_model |-> 0]
    /\ seen = <<>>
    /\ outfile = <<>>
    /\ VocabIdle
    /\ frame = NoFrame
    /\ calls = <<>>

TrainUnchanged == UNCHANGED <<vocab, added, vop, fvocab, evocab, frame, calls>>

\* lines 217-224: the next epoch begins
EpochStart ==
    /\ main.at = "epoch" /\ main.epoch < NumEpochs
    /\ \E shuffled \in Shuffles(main.traindata) :
          main' = [main EXCEPT !.at = "train", !.traindata = shuffled, !.k = 0,
                               !.train_loss = 0, !.train_ewords = 0]
    /\ UNCHANGED <<heap, m, seen, outfile>>
    /\ TrainUnchanged

\* lines 225-231: one training pair
TrainStep == \E loss \in Losses :
    /\ main.at = "train" /\ main.k < Len(main.traindata)
    /\ heap' = [heap EXCEPT ![m] = OptStep(@)]
    /\ main' = [main EXCEPT !.k = @ + 1, !.train_loss = @ + loss,
                            !.train_ewords = @ + Len(main.traindata[main.k + 1].ewords)]
    /\ UNCHANGED <<m, seen, outfile>>
    /\ TrainUnchanged

\* lines 235-236
DevStart ==
    /\ main.at = "train" /\ main.k >= Len(main.traindata)
    /\ main' = [main EXCEPT !.at = "dev", !.k = 0, !.dev_loss = 0, !.dev_ewords = 0]
    /\ UNCHANGED <<heap, m, seen, outfile>>
    /\ TrainUnchanged

\* lines 237-242: one held-out pair
DevStep == \E loss \in Losses :
    /\ main.at = "dev" /\ main.k < Len(devdata)
    /\ main' = [main EXCEPT !.k = @ + 1, !.dev_loss = @ + loss,
                            !.dev_ewords = @ + Len(devdata[main.k + 1].ewords)]
    /\ UNCHANGED <<heap, m, seen, outfile>>
    /\ TrainUnchanged

\* lines 244-248: the snapshot, and the end of the epoch
EpochEnd ==
    /\ main.at = "dev" /\ main.k >= Len(devdata)
    /\ IF improves(main.best_dev_loss, main.dev_loss)
       THEN LET c == deepcopy(heap, m)
            IN  /\ heap' = Collect(c.heap, {m, c.ref})
                /\ main' = [main EXCEPT !.at = "epoch", !.epoch = @ + 1,
                                        !.best_model = c.ref,
                                        !.best_dev_loss = <<main.dev_loss>>]
       ELSE /\ heap' = heap
            /\ main' = [main EXCEPT !.at = "epoch", !.epoch = @ + 1]
    /\ seen' = IF main.dev_loss \in DOMAIN seen THEN seen
               ELSE SetItem(seen, main.dev_loss,
                            [epoch |-> main.epoch + 1, theta |-> heap[m]])
    /\ UNCHANGED <<m, outfile>>
    /\ TrainUnchanged

\* lines 252-254: m = best_model; test.out is opened for writing
TestStart ==
    /\ main.at = "epoch" /\ main.epoch >= NumEpochs
    /\ m' = main.best_model
    /\ heap' = Collect(heap, {main.best_model})
    /\ outfile' = <<>>
    /\ main' = [main EXCEPT !.at = "test", !.k = 0]
    /\ UNCHANGED seen
    /\ TrainUnchanged

\* lines 255-257: one test sentence
TestStep ==
    /\ main.at = "test" /\ main.k < Len(testdata)
    /\ outfile' = Append(outfile, join(translate(heap[m], testdata[main.k + 1].fwords)))
    /\ main' = [main EXCEPT !.k = @ + 1]
    /\ UNCHANGED <<heap, m, seen>>
    /\ TrainUnchanged

TestEnd ==
    /\ main.at = "test" /\ main.k >= Len(testdata)
    /\ main' = [main EXCEPT !.at = "done"]
    /\ UNCHANGED <<heap, m, seen, outfile>>
    /\ TrainUnchanged

NextTrain ==
    \/ EpochStart
    \/ TrainStep
    \/ DevStart
    \/ DevStep
    \/ EpochEnd
    \/ TestStart
    \/ TestStep
    \/ TestEnd

SpecTrain == InitTrain /\ [][NextTrain]_vars

(***************************************************************************)
(* Claims about the epoch loop, under SpecTrain.                           *)
(***************************************************************************)
Observed == DOMAIN seen

MinLoss == CHOOSE x \in Observed : \A y \in Observed : x <= y

\* C8: best_dev_loss never increases from epoch to epoch; after every epoch it
\* is the least held-out loss observed so far; and the snapshot is replaced in
\* exactly the epochs whose held-out loss is strictly lower than the best
\* before (or the first epoch), a tie keeping the earlier snapshot.
BestIsMin ==
    IF Observed = {} THEN main.best_dev_loss = None /\ main.best_model = 0
    ELSE main.best_dev_loss = <<MinLoss>>

BestNeverRises ==
    main.best_dev_loss # None =>
        main'.best_dev_loss # None /\ main'.best_dev_loss[1] <= main.best_dev_loss[1]

ReplacedExactlyOnImprovement ==
    IF main'.epoch = main.epoch + 1
    THEN (main'.best_model # main.best_model) <=>
            (Observed = {} \/ main.dev_loss < MinLoss)
    ELSE main'.best_model = main.best_model

C8_BestDevLoss ==
    BestIsMin /\ [][BestIsMin' /\ BestNeverRises /\ ReplacedExactlyOnImprovement]_vars

C8_Witness ==
    /\ main.at = "epoch" /\ main.epoch = 3
    /\ Cardinality(Observed) = 2
    /\ seen[MinLoss].epoch = 2
    /\ main.dev_loss = MinLoss
    /\ heap[main.best_model] = seen[MinLoss].theta
    /\ heap[main.best_model] # heap[m]

\* C10: the snapshot is its own object: through every later optimizer step
\* on the live model its parameters stay the ones the live model had at the
\* end of the epoch with the least held-out loss (the first such epoch); and
\* test.out holds one line per test sentence, in input order, the translation
\* under those parameters.
SnapshotIsBestEpoch ==
    Observed # {} =>
        /\ main.at \in {"epoch", "train", "dev"} => main.best_model # m
        /\ heap[main.best_model] = seen[MinLoss].theta

TestOutput ==
    main.at = "done" =>
        /\ Len(outfile) = Len(testdata)
        /\ \A t \in 1..Len(testdata) :
              outfile[t] = join(translate(seen[MinLoss].theta, testdata[t].fwords))

C10_SnapshotIndependent == SnapshotIsBestEpoch /\ TestOutput

C10_Witness ==
    /\ main.at = "done"
    /\ seen[MinLoss].epoch \in 2..(NumEpochs - 1)
    /\ Cardinality(Observed) >= 2
    /\ \A t \in 1..Len(testdata) : outfile[t] # <<>>

====
